---- MODULE Spec2Model ----
(***************************************************************************)
(* Model of monitor.js: a network presence monitor.  getActiveHosts runs   *)
(* nmap, reads and parses its XML report and extracts a Set of host        *)
(* identifiers; checkForChanges diffs that Set against previousHosts,      *)
(* logs, notifies and commits; main runs one cycle and then arms a         *)
(* repeating timer that calls checkForChanges on every tick.               *)
(*                                                                         *)
(* A JavaScript Set is modelled as a sequence without duplicates, in       *)
(* insertion order (the order in which for..of iterates it).               *)
(***************************************************************************)
EXTENDS Integers, Sequences, FiniteSets, TLC

\* ------------------------------------------------------------------ bounds
\* number of checkForChanges invocations that can be in flight at once
MaxInFlight == 2
\* number of host entries in a report of the normalizer's input universe
MaxHosts == 2

Slots == 1..MaxInFlight

\* ------------------------------------------------------- JavaScript values
Range(s) == {s[i] : i \in 1..Len(s)}

\* Set.prototype.has
SetHas(s, x) == x \in Range(s)

\* Set.prototype.add: insertion order, duplicates collapse
SetAdd(s, x) == IF SetHas(s, x) THEN s ELSE Append(s, x)

\* Set.prototype.size
SetSize(s) == Len(s)

\* new Set()
EmptySet == <<>>

\* an address element of a host, as xml2js delivers it: kind "elem" has an
\* attribute object ($), kind "noattr" has none, kind "null" is undefined
Addr(t, a, v) == [kind |-> "elem", addrtype |-> t, addr |-> a, vendor |-> v]
NoAttrAddr == [kind |-> "noattr", addrtype |-> "", addr |-> "", vendor |-> ""]
NullAddr == [kind |-> "null", addrtype |-> "", addr |-> "", vendor |-> ""]

\* a property that holds an array, a single value (items of length 1) or
\* nothing at all (not an array, no items)
Arr(items) == [isArray |-> TRUE, items |-> items]
Single(x) == [isArray |-> FALSE, items |-> <<x>>]
Absent == [isArray |-> FALSE, items |-> <<>>]

\* a host element: status is the state attribute of status[0], or "absent"
Host(st, address) == [isNull |-> FALSE, status |-> st, address |-> address]
NullHost == [isNull |-> TRUE, status |-> "absent", address |-> Absent]

\* the parsed document: nmaprun is whether the root element is there
Report(host) == [nmaprun |-> TRUE, host |-> host]
NoRoot == [nmaprun |-> FALSE, host |-> Absent]

\* ------------------------------------------------ getActiveHosts, step 4
\* Array.isArray(x) ? x : [x]
ToArray(v, undef) ==
  IF v.isArray THEN v.items
  ELSE IF v.items = <<>> THEN <<undef>> ELSE v.items

\* result.nmaprun && result.nmaprun.host
HasHostList(result) ==
  result.nmaprun /\ (result.host.isArray \/ (result.host.items # <<>> /\ ~result.host.items[1].isNull))

\* a variant of the filter that only drops hosts reported down
HostIsNotDown(host) == ~host.isNull /\ host.status # "down"

\* the .filter predicate: host && host.status && ... state === 'up'
HostIsUp(host) == ~host.isNull /\ host.status = "up"

\* addresses.find(addr => addr && addr.$ && addr.$.addrtype === type);
\* NullAddr stands for undefined (nothing found)
RECURSIVE FindAddr(_, _)
FindAddr(addresses, type) ==
  IF addresses = <<>> THEN NullAddr
  ELSE IF Head(addresses).kind = "elem" /\ Head(addresses).addrtype = type
       THEN Head(addresses)
       ELSE FindAddr(Tail(addresses), type)

\* macObj.$.vendor || 'Unknown'
VendorOf(macObj) == IF macObj.vendor # "" THEN macObj.vendor ELSE "Unknown"

\* the template strings, as the sequence of their pieces
HostIdentifier(ip, macObj) ==
  IF macObj.kind # "null"
  THEN <<ip, " (", macObj.addr, " - ", VendorOf(macObj), ")">>
  ELSE <<ip, " (No MAC)">>

\* the .forEach body for one host that passed the filter
AddHost(host, activeHosts) ==
  LET addresses == ToArray(host.address, NullAddr)
      ipObj == FindAddr(addresses, "ipv4")
      macObj == FindAddr(addresses, "mac")
  IN IF ipObj.kind = "null" THEN activeHosts
     ELSE SetAdd(activeHosts, HostIdentifier(ipObj.addr, macObj))

\* a variant without the null check of the filter: a null host raises, and
\* the catch block returns an empty Set
RECURSIVE FilterForEachAbort(_, _)
FilterForEachAbort(hosts, activeHosts) ==
  IF hosts = <<>> THEN activeHosts
  ELSE IF \E i \in 1..Len(hosts) : hosts[i].isNull THEN EmptySet
  ELSE FilterForEachAbort(Tail(hosts),
         IF HostIsUp(Head(hosts)) THEN AddHost(Head(hosts), activeHosts)
         ELSE activeHosts)

RECURSIVE FilterForEach(_, _)
FilterForEach(hosts, activeHosts) ==
  IF hosts = <<>> THEN activeHosts
  ELSE FilterForEach(Tail(hosts),
         IF HostIsUp(Head(hosts)) THEN AddHost(Head(hosts), activeHosts)
         ELSE activeHosts)

\* the Set built from a parsed document
ExtractHosts(result) ==
  IF HasHostList(result)
  THEN FilterForEach(ToArray(result.host, NullHost), EmptySet)
  ELSE EmptySet

\* ------------------------------------------------------ scanner outputs
Ip4(a) == Addr("ipv4", a, "")
Mac(a, v) == Addr("mac", a, v)

\* the parsed content of XML_FILE when fs.readFile succeeds: a report that
\* this invocation's nmap, or that of an overlapping invocation, has written
\* (an empty Set of hosts comes from a failed scan here; documents without
\* hosts are among AllReports below)
ScanOutputs ==
  { Report(Arr(<<Host("up", Arr(<<Ip4("10.0.0.5"), Mac("AA", "Acme")>>))>>)),
    Report(Arr(<<Host("up", Arr(<<Ip4("10.0.0.5"), Mac("AA", "Acme")>>)),
                 Host("up", Arr(<<Ip4("10.0.0.9")>>))>>)),
    Report(Arr(<<Host("down", Arr(<<Ip4("10.0.0.9")>>)),
                 Host("up", Arr(<<Ip4("10.0.0.5")>>)),
                 Host("up", Arr(<<Mac("BB", ""), Ip4("10.0.0.7")>>))>>)) }

\* ------------------------------------------------- checkForChanges, diff
\* a variant without the membership test
NewDevicesUnfiltered(cur, prev) == cur

\* for (const host of currentHosts) if (!previousHosts.has(host)) push
NewDevices(cur, prev) == SelectSeq(cur, LAMBDA host : ~SetHas(prev, host))

\* for (const host of previousHosts) if (!currentHosts.has(host)) push
LeftDevices(cur, prev) == SelectSeq(prev, LAMBDA host : ~SetHas(cur, host))

\* const isFirstScan = previousHosts.size === 0
IsFirstScan(prev) == SetSize(prev) = 0

\* const hasChanges = newDevices.length > 0 || leftDevices.length > 0
HasChanges(new, left) == Len(new) > 0 \/ Len(left) > 0

\* a variant that notifies on every change, first scan or not
ShouldNotifyAlways(hasChanges, isFirst) == hasChanges

\* if (hasChanges && !isFirstScan)
ShouldNotify(hasChanges, isFirst) == hasChanges /\ ~isFirst

\* a variant that prints the summary line in every cycle
ChangeLogWithSummary(new, left, cur) ==
  [i \in 1..Len(new) |-> <<"[+] NEW DEVICE: ", new[i]>>]
    \o [i \in 1..Len(left) |-> <<"[-] DEVICE LEFT: ", left[i]>>]
    \o << <<"No changes. ", SetSize(cur), " hosts active.">> >>

\* the console lines of step 1
ChangeLog(new, left, cur) ==
  IF HasChanges(new, left)
  THEN [i \in 1..Len(new) |-> <<"[+] NEW DEVICE: ", new[i]>>]
       \o [i \in 1..Len(left) |-> <<"[-] DEVICE LEFT: ", left[i]>>]
  ELSE << <<"No changes. ", SetSize(cur), " hosts active.">> >>

\* a variant that notifies of the first new device only
NewNotificationFirst(new) ==
  [title |-> "Network: New Devices", count |-> 1, list |-> <<new[1]>>]

\* the notify-send invocations: title and body (count and joined list)
NewNotification(new) ==
  [title |-> "Network: New Devices", count |-> Len(new), list |-> new]
LeftNotification(left) ==
  [title |-> "Network: Devices Left", count |-> Len(left), list |-> left]

\* ---------------------------------------------------------------- state
VARIABLES
  previousHosts,  \* the module-level Set of the last committed scan
  mainPc,         \* main: "start", "await" (on the initial cycle), "armed"
  cycle,          \* per invocation of checkForChanges: position and locals
  lastCycle,      \* the locals of the invocation that committed last
  hist            \* history of starts, recorded when on is set:
                  \* order: the invocations in flight, oldest first;
                  \* overtaken: those that started before the last committer

vars == <<previousHosts, mainPc, cycle, lastCycle, hist>>

\* an invocation that is not running.  byTimer tells the timer's calls from
\* main's; prev is previousHosts as the diff read it; sent lists the
\* notify-send commands started; xmlData is kept until the diff to relate
\* the returned Set to the document it was built from.  pc is the position:
\*  "exec"  awaiting nmap            "read"   awaiting fs.readFile
\*  "parse" awaiting the XML parser  "resume" getActiveHosts has returned
\*  "notifyNew", "notifyLeft" awaiting notify-send, "done" only in lastCycle
IdleCycle ==
  [pc |-> "idle", byTimer |-> FALSE, xmlData |-> NoRoot, currentHosts |-> EmptySet,
   scanFailed |-> FALSE, prev |-> EmptySet,
   isFirstScan |-> FALSE, newDevices |-> <<>>, leftDevices |-> <<>>,
   sent |-> <<>>, notifyFailed |-> FALSE, log |-> <<>>]

InFlight(c) == cycle[c].pc # "idle"

Init ==
  /\ previousHosts = EmptySet
  /\ mainPc = "start"
  /\ cycle = [c \in Slots |-> IdleCycle]
  /\ lastCycle = IdleCycle
  /\ hist = [on |-> FALSE, order |-> <<>>, overtaken |-> {}]

\* invocation c starts
HistStart(c) ==
  hist' = IF hist.on THEN [hist EXCEPT !.order = Append(@, c)] ELSE hist

\* invocation c returns: those before it in the order are now overtaken
HistEnd(c, committed) ==
  hist' = IF hist.on
          THEN [hist EXCEPT
                  !.order = SelectSeq(@, LAMBDA d : d # c),
                  !.overtaken =
                    IF committed
                    THEN {hist.order[j] : j \in {i \in 1..Len(hist.order) :
                            \E k \in (i + 1)..Len(hist.order) : hist.order[k] = c}}
                    ELSE @ \ {c}]
          ELSE hist

\* checkForChanges is called: runs up to the await of nmap
Started(byTimer) ==
  [IdleCycle EXCEPT !.pc = "exec", !.byTimer = byTimer, !.log = << <<"Scanning...">> >>]

\* previousHosts = currentHosts, and the async function returns
Commit(c, locals) ==
  /\ previousHosts' = locals.currentHosts
  /\ lastCycle' = [locals EXCEPT !.pc = "done"]
  /\ cycle' = [cycle EXCEPT ![c] = IdleCycle]
  /\ HistEnd(c, TRUE)

\* a variant that keeps the known hosts when the scan fails
ScanCatchKeep(c) ==
  cycle' = [cycle EXCEPT ![c] = [@ EXCEPT !.pc = "resume",
                                          !.xmlData = NoRoot,
                                          !.currentHosts = previousHosts,
                                          !.scanFailed = TRUE,
                                          !.log = Append(@, <<"[Error] Scan failed">>)]]

\* the catch block of getActiveHosts
ScanCatch(c) ==
  cycle' = [cycle EXCEPT ![c] = [@ EXCEPT !.pc = "resume",
                                          !.xmlData = NoRoot,
                                          !.currentHosts = EmptySet,
                                          !.scanFailed = TRUE,
                                          !.log = Append(@, <<"[Error] Scan failed">>)]]

\* nmap exits: it has written XML_FILE, or execPromise rejects
ExecDone(c) ==
  /\ cycle[c].pc = "exec"
  /\ \/ cycle' = [cycle EXCEPT ![c].pc = "read"]
     \/ ScanCatch(c)
  /\ UNCHANGED <<previousHosts, mainPc, lastCycle, hist>>

\* fs.readFile settles
ReadDone(c) ==
  /\ cycle[c].pc = "read"
  /\ \/ \E r \in ScanOutputs :
          cycle' = [cycle EXCEPT ![c] = [@ EXCEPT !.pc = "parse", !.xmlData = r]]
     \/ ScanCatch(c)
  /\ UNCHANGED <<previousHosts, mainPc, lastCycle, hist>>

\* parseStringPromise settles; on success step 4 runs and the Set is returned
ParseDone(c) ==
  /\ cycle[c].pc = "parse"
  /\ \/ cycle' = [cycle EXCEPT ![c] = [@ EXCEPT !.pc = "resume",
                                                !.currentHosts = ExtractHosts(cycle[c].xmlData)]]
     \/ ScanCatch(c)
  /\ UNCHANGED <<previousHosts, mainPc, lastCycle, hist>>

\* checkForChanges resumes with currentHosts: diff, log, and either the
\* first notify-send is started or the state is committed at once
Resume(c) ==
  /\ cycle[c].pc = "resume"
  /\ LET cur == cycle[c].currentHosts
         isFirst == IsFirstScan(previousHosts)
         new == NewDevices(cur, previousHosts)
         left == LeftDevices(cur, previousHosts)
         diffed == [cycle[c] EXCEPT !.xmlData = NoRoot,
                                    !.prev = previousHosts,
                                    !.isFirstScan = isFirst,
                                    !.newDevices = new,
                                    !.leftDevices = left,
                                    !.log = @ \o ChangeLog(new, left, cur)]
     IN IF ShouldNotify(HasChanges(new, left), isFirst)
        THEN /\ cycle' = [cycle EXCEPT ![c] =
                  IF Len(new) > 0
                  THEN [diffed EXCEPT !.pc = "notifyNew",
                                      !.sent = Append(@, NewNotification(new))]
                  ELSE [diffed EXCEPT !.pc = "notifyLeft",
                                      !.sent = Append(@, LeftNotification(left))]]
             /\ UNCHANGED <<previousHosts, lastCycle, hist>>
        ELSE Commit(c, diffed)
  /\ UNCHANGED mainPc

\* a variant in which the delivery error escapes checkForChanges
NotifyRethrow(c) ==
  /\ cycle' = [cycle EXCEPT ![c] = IdleCycle]
  /\ HistEnd(c, FALSE)
  /\ UNCHANGED <<previousHosts, lastCycle>>

\* a variant that keeps previousHosts when a delivery fails, so that the
\* change is found again
NotifyCatchNoCommit(c) ==
  /\ lastCycle' = [cycle[c] EXCEPT !.pc = "done", !.notifyFailed = TRUE]
  /\ cycle' = [cycle EXCEPT ![c] = IdleCycle]
  /\ HistEnd(c, FALSE)
  /\ UNCHANGED previousHosts

\* the catch block around the notifications, then the commit
NotifyCatch(c) ==
  Commit(c, [cycle[c] EXCEPT !.notifyFailed = TRUE,
                             !.log = Append(@, <<"[Error] Failed to send notification">>)])

\* the 'new devices' notify-send settles
NotifyNewDone(c) ==
  /\ cycle[c].pc = "notifyNew"
  /\ \/ IF Len(cycle[c].leftDevices) > 0
        THEN /\ cycle' = [cycle EXCEPT ![c] =
                  [@ EXCEPT !.pc = "notifyLeft",
                            !.sent = Append(@, LeftNotification(cycle[c].leftDevices))]]
             /\ UNCHANGED <<previousHosts, lastCycle, hist>>
        ELSE Commit(c, cycle[c])
     \/ NotifyCatch(c)
  /\ UNCHANGED mainPc

\* the 'devices left' notify-send settles
NotifyLeftDone(c) ==
  /\ cycle[c].pc = "notifyLeft"
  /\ \/ Commit(c, cycle[c])
     \/ NotifyCatch(c)
  /\ UNCHANGED mainPc

\* main: await checkForChanges() -- the initial cycle starts at once
MainStart ==
  /\ mainPc = "start"
  /\ mainPc' = "await"
  /\ cycle' = [cycle EXCEPT ![1] = Started(FALSE)]
  /\ HistStart(1)
  /\ UNCHANGED <<previousHosts, lastCycle>>

\* a variant without the await: the timer is armed while the initial cycle runs
MainArmEarly ==
  /\ mainPc = "await"
  /\ mainPc' = "armed"
  /\ UNCHANGED <<previousHosts, cycle, lastCycle, hist>>

\* main resumes after the initial cycle: setInterval(checkForChanges, ...)
MainArm ==
  /\ mainPc = "await"
  /\ ~InFlight(1)
  /\ mainPc' = "armed"
  /\ UNCHANGED <<previousHosts, cycle, lastCycle, hist>>

FreeSlots == {c \in Slots : ~InFlight(c)}

\* a variant with a one-shot timer
TickOnce ==
  /\ mainPc = "armed"
  /\ FreeSlots # {}
  /\ mainPc' = "fired"
  /\ LET c == CHOOSE f \in FreeSlots : \A g \in FreeSlots : f <= g
     IN /\ cycle' = [cycle EXCEPT ![c] = Started(TRUE)]
        /\ HistStart(c)
  /\ UNCHANGED <<previousHosts, lastCycle>>

\* the interval timer fires and calls checkForChanges, whether or not an
\* earlier invocation is still running (the code has no guard); the model
\* holds at most MaxInFlight invocations at once
Tick ==
  /\ mainPc = "armed"
  /\ FreeSlots # {}
  /\ LET c == CHOOSE f \in FreeSlots : \A g \in FreeSlots : f <= g
     IN /\ cycle' = [cycle EXCEPT ![c] = Started(TRUE)]
        /\ HistStart(c)
  /\ UNCHANGED <<previousHosts, mainPc, lastCycle>>

Next ==
  \/ MainStart
  \/ MainArm
  \/ Tick
  \/ \E c \in Slots : ExecDone(c)
  \/ \E c \in Slots : ReadDone(c)
  \/ \E c \in Slots : ParseDone(c)
  \/ \E c \in Slots : Resume(c)
  \/ \E c \in Slots : NotifyNewDone(c)
  \/ \E c \in Slots : NotifyLeftDone(c)

Spec == Init /\ [][Next]_vars

\* one step of invocation c: the settling of the operation it awaits
CycleStep(c) ==
  \/ ExecDone(c)
  \/ ReadDone(c)
  \/ ParseDone(c)
  \/ Resume(c)
  \/ NotifyNewDone(c)
  \/ NotifyLeftDone(c)

\* the event loop runs every continuation that is ready, every external
\* command and file read settles, and the interval timer keeps firing
Fairness ==
  /\ WF_vars(MainStart \/ MainArm)
  /\ WF_vars(Tick)
  /\ \A c \in Slots : WF_vars(CycleStep(c))

LiveSpec == Init /\ [][Next]_vars /\ Fairness

\* the same program with the history of starts recorded
OrderInit ==
  /\ previousHosts = EmptySet
  /\ mainPc = "start"
  /\ cycle = [c \in Slots |-> IdleCycle]
  /\ lastCycle = IdleCycle
  /\ hist = [on |-> TRUE, order |-> <<>>, overtaken |-> {}]

OrderSpec == OrderInit /\ [][Next]_vars

\* --------------------------------------------- the normalizer on its own
\* the host entries and address lists a parsed report is made of
AddressLists ==
  { Absent,
    Single(Ip4("10.0.0.7")),
    Arr(<<Ip4("10.0.0.5"), Mac("AA", "Acme")>>),
    Arr(<<Mac("BB", ""), Ip4("10.0.0.9")>>),
    Arr(<<Mac("AA", "Acme")>>),
    Arr(<<NoAttrAddr, Ip4("10.0.0.5")>>) }

HostEntries ==
  {NullHost} \cup {Host(st, a) : st \in {"up", "down", "absent"}, a \in AddressLists}

RECURSIVE SeqsUpTo(_, _)
SeqsUpTo(S, n) ==
  IF n = 0 THEN {<<>>}
  ELSE LET shorter == SeqsUpTo(S, n - 1)
       IN shorter \cup {Append(q, x) : q \in {r \in shorter : Len(r) = n - 1}, x \in S}

\* every document with at most MaxHosts host entries
AllReports ==
  {NoRoot, Report(Absent)}
    \cup {Report(Single(h)) : h \in HostEntries}
    \cup {Report(Arr(hosts)) : hosts \in SeqsUpTo(HostEntries, MaxHosts)}

\* the initial cycle has read some document and awaits the parser
NormInit ==
  /\ previousHosts = EmptySet
  /\ mainPc = "await"
  /\ lastCycle = IdleCycle
  /\ hist = [on |-> FALSE, order |-> <<>>, overtaken |-> {}]
  /\ \E r \in AllReports :
       cycle = [c \in Slots |->
                  IF c = 1 THEN [Started(FALSE) EXCEPT !.pc = "parse", !.xmlData = r]
                  ELSE IdleCycle]

NormNext == ParseDone(1) \/ Resume(1) \/ MainArm

NormSpec == NormInit /\ [][NormNext]_vars

\* ================================================================ claims
\* the locals of every invocation in flight and of the last one committed
Records == {cycle[c] : c \in Slots} \cup {lastCycle}

Committed == lastCycle.pc = "done"

Titles(rec) == [i \in 1..Len(rec.sent) |-> rec.sent[i].title]

CountOf(rec, title) == Cardinality({i \in 1..Len(rec.sent) : rec.sent[i].title = title})

\* C1: at no point are two checkForChanges cycles in flight at once; a timer
\* tick never starts a cycle while another is between its start and its
\* commit.
NoOverlappingCycles == Cardinality({c \in Slots : InFlight(c)}) <= 1

LeftAttemptedAfterNewFails ==
  (/\ Committed
   /\ ~lastCycle.isFirstScan
   /\ lastCycle.newDevices # <<>>
   /\ lastCycle.leftDevices # <<>>)
  => CountOf(lastCycle, "Network: Devices Left") >= 1

\* how far an invocation has come
Rank(rec) ==
  CASE rec.pc = "exec" -> 1
    [] rec.pc = "read" -> 2
    [] rec.pc = "parse" -> 3
    [] rec.pc = "resume" -> 4
    [] rec.pc = "notifyNew" -> 5
    [] rec.pc = "notifyLeft" -> 6
    [] OTHER -> 7

\* C4: every cycle that starts runs to completion (it always awaits an
\* operation whose settling is a step, and each step takes it further), and
\* it ends only by
\* the commit: previousHosts becomes that cycle's scan result, the empty Set
\* if the scan failed, whether or not a notification failed.
EveryCycleCommits ==
  /\ [](\A c \in Slots : InFlight(c) => Rank(cycle[c]) <= 6)
  /\ [][\A c \in Slots :
          (InFlight(c) /\ cycle'[c] # cycle[c])
          => /\ Rank(cycle'[c]) > Rank(cycle[c])
             /\ cycle'[c].pc = "idle"
                => /\ previousHosts' = cycle[c].currentHosts
                   /\ lastCycle'.pc = "done"
                   /\ lastCycle'.currentHosts = cycle[c].currentHosts
                   /\ cycle[c].scanFailed => previousHosts' = EmptySet]_vars

\* a cycle whose scan and whose notification both failed has committed the
\* empty Set over a non-empty one
WitnessEveryCycleCommits ==
  /\ Committed
  /\ lastCycle.scanFailed
  /\ lastCycle.notifyFailed
  /\ lastCycle.prev # EmptySet
  /\ previousHosts = EmptySet

Diffed(rec) == rec.pc \in {"notifyNew", "notifyLeft", "done"}

NoDuplicates(s) == Cardinality(Range(s)) = Len(s)

\* C5: the diff of a cycle yields arrivals = current \ previous and
\* departures = previous \ current, each host once; so equal Sets give no
\* arrivals and no departures, an empty previous Set gives arrivals = current
\* and an empty current Set gives departures = previous.
DiffIsSetDifference ==
  \A rec \in Records :
    Diffed(rec) =>
      LET P == Range(rec.prev)
          C == Range(rec.currentHosts)
      IN /\ Range(rec.newDevices) = C \ P
         /\ Range(rec.leftDevices) = P \ C
         /\ NoDuplicates(rec.newDevices)
         /\ NoDuplicates(rec.leftDevices)
         /\ P = C => (rec.newDevices = <<>> /\ rec.leftDevices = <<>>)
         /\ P = {} => (Range(rec.newDevices) = C /\ rec.leftDevices = <<>>)
         /\ C = {} => (rec.newDevices = <<>> /\ Range(rec.leftDevices) = P)

\* a committed cycle had two arrivals and two departures
WitnessDiffIsSetDifference ==
  /\ Committed
  /\ Len(lastCycle.newDevices) >= 2
  /\ Len(lastCycle.leftDevices) >= 2

\* C6: a cycle whose scan failed while previousHosts was non-empty logs
\* every known host as left, starts one 'devices left' notification that
\* lists all of them, and commits the empty Set.
FailedScanReportsAllLeft ==
  (Committed /\ lastCycle.scanFailed /\ lastCycle.prev # EmptySet)
  => /\ lastCycle.currentHosts = EmptySet
     /\ lastCycle.leftDevices = lastCycle.prev
     /\ \A i \in 1..Len(lastCycle.prev) :
          <<"[-] DEVICE LEFT: ", lastCycle.prev[i]>> \in Range(lastCycle.log)
     /\ lastCycle.sent = <<LeftNotification(lastCycle.prev)>>
     /\ lastCycle.sent[1].count = Len(lastCycle.prev)
     /\ previousHosts = EmptySet

\* a failed scan met two known hosts
WitnessFailedScanReportsAllLeft ==
  /\ Committed
  /\ lastCycle.scanFailed
  /\ Len(lastCycle.prev) >= 2
  /\ Len(lastCycle.sent) = 1
  /\ previousHosts = EmptySet

\* C7: the successful scan that follows a failed scan announces all the
\* hosts it finds: when a cycle takes its diff right after the commit of a
\* failed-scan cycle (one that had known hosts to lose) and its own scan
\* found hosts, it starts a 'new devices' notification listing all of them.
ArrivalBurstAfterFailedScan ==
  [][\A c \in Slots :
       (/\ cycle[c].pc = "resume"
        /\ cycle'[c].pc # "resume"
        /\ Committed
        /\ lastCycle.scanFailed
        /\ lastCycle.prev # EmptySet
        /\ ~cycle[c].scanFailed
        /\ cycle[c].currentHosts # EmptySet)
       => /\ cycle'[c].pc = "notifyNew"
          /\ cycle'[c].sent = <<NewNotification(cycle[c].currentHosts)>>]_vars

\* C8: the scheduler has no terminal state: whatever happened in the cycles
\* so far (failed scans, failed notifications), the timer starts another
\* cycle later, so cycles are started infinitely often.
CyclesStartInfinitelyOften == []<><<Tick>>_vars

\* after a cycle whose scan and notification failed has committed, a cycle
\* started by the timer is awaiting its scan
WitnessCyclesStartInfinitelyOften ==
  /\ Committed
  /\ lastCycle.scanFailed
  /\ lastCycle.notifyFailed
  /\ mainPc = "armed"
  /\ \E c \in Slots : cycle[c].pc = "exec" /\ cycle[c].byTimer
  /\ Cardinality({c \in Slots : InFlight(c)}) = 1

\* C9: notifications are per list: a cycle starts at most one 'new devices'
\* and at most one 'devices left' notification, each carrying its whole
\* list; a cycle that is not the first and whose deliveries succeed has
\* started exactly one 'new devices' notification iff there are arrivals and
\* exactly one 'devices left' notification iff there are departures.
NotificationsPerList ==
  \A rec \in Records :
    /\ CountOf(rec, "Network: New Devices") <= 1
    /\ CountOf(rec, "Network: Devices Left") <= 1
    /\ \A i \in 1..Len(rec.sent) :
         \/ /\ rec.sent[i].title = "Network: New Devices"
            /\ rec.sent[i].list = rec.newDevices
            /\ rec.sent[i].count = Len(rec.newDevices)
            /\ rec.newDevices # <<>>
         \/ /\ rec.sent[i].title = "Network: Devices Left"
            /\ rec.sent[i].list = rec.leftDevices
            /\ rec.sent[i].count = Len(rec.leftDevices)
            /\ rec.leftDevices # <<>>
    /\ (rec.pc = "done" /\ ~rec.isFirstScan /\ ~rec.notifyFailed)
       => /\ CountOf(rec, "Network: New Devices") = 1 <=> rec.newDevices # <<>>
          /\ CountOf(rec, "Network: Devices Left") = 1 <=> rec.leftDevices # <<>>

\* a cycle with two arrivals and a departure delivered its two notifications
WitnessNotificationsPerList ==
  /\ Committed
  /\ ~lastCycle.notifyFailed
  /\ Len(lastCycle.newDevices) >= 2
  /\ Len(lastCycle.leftDevices) >= 1
  /\ Titles(lastCycle) = <<"Network: New Devices", "Network: Devices Left">>

\* the host entries of a document, and whether an entry is up with an ipv4
\* address
HostsOf(result) == IF result.nmaprun THEN result.host.items ELSE <<>>

HasIpv4(host) ==
  \E i \in 1..Len(host.address.items) :
    host.address.items[i].kind = "elem" /\ host.address.items[i].addrtype = "ipv4"

Qualifies(host) == ~host.isNull /\ host.status = "up" /\ HasIpv4(host)

IdentityOf(host) ==
  LET items == host.address.items
      first == CHOOSE i \in 1..Len(items) :
                 /\ items[i].kind = "elem" /\ items[i].addrtype = "ipv4"
                 /\ \A j \in 1..(i - 1) : ~(items[j].kind = "elem" /\ items[j].addrtype = "ipv4")
  IN HostIdentifier(items[first].addr, FindAddr(items, "mac"))

\* C10: the Set built from a document holds an identity for a host entry
\* iff the entry's status is 'up' and it has an ipv4 address; entries that
\* are down, without status or without ipv4 address contribute nothing: the
\* Set is the one built from the document without them.
OnlyUpHostsWithIpv4 ==
  \A rec \in Records :
    (rec.pc = "resume" /\ ~rec.scanFailed)
    => LET hosts == HostsOf(rec.xmlData)
           kept == SelectSeq(hosts, Qualifies)
       IN /\ Range(rec.currentHosts) = {IdentityOf(kept[i]) : i \in 1..Len(kept)}
          /\ rec.currentHosts = ExtractHosts(Report(Arr(kept)))

\* a document with a host that is up and a host with an ipv4 address that
\* is not up was turned into a Set of one identity
WitnessOnlyUpHostsWithIpv4 ==
  \E c \in Slots :
    /\ cycle[c].pc = "resume"
    /\ ~cycle[c].scanFailed
    /\ LET hosts == HostsOf(cycle[c].xmlData)
       IN /\ Len(hosts) = 2
          /\ \E i, j \in 1..2 :
               /\ Qualifies(hosts[i])
               /\ ~hosts[j].isNull /\ hosts[j].status # "up" /\ HasIpv4(hosts[j])
    /\ Len(cycle[c].currentHosts) = 1

\* invocation d takes its diff in this step (it reads previousHosts)
Reads(d) == cycle[d].pc = "resume" /\ cycle'[d].pc # "resume"

\* invocation d commits in this step (it writes previousHosts)
Writes(d) == InFlight(d) /\ cycle'[d].pc = "idle"

\* C11: previousHosts is written only by a cycle's commit, and between a
\* cycle's read of previousHosts for its diff and that cycle's commit no
\* other cycle reads or writes previousHosts.
SingleWriterSingleReader ==
  [][/\ previousHosts' # previousHosts => \E c \in Slots : Writes(c)
     /\ \A c \in Slots :
          cycle[c].pc \in {"notifyNew", "notifyLeft"}
          => \A d \in Slots \ {c} : ~Reads(d) /\ ~Writes(d)]_vars

\* C12: the initial cycle starts with main's first step, the timer is armed
\* only after that cycle has committed, and no cycle started by the timer
\* exists before.
StartupOrdering ==
  /\ [](mainPc = "armed" => Committed)
  /\ [](mainPc # "armed" => \A rec \in Records : ~rec.byTimer)
  /\ [][/\ mainPc = "start" => (mainPc' = "await" /\ cycle'[1].pc = "exec")
        /\ (mainPc = "await" /\ mainPc' = "armed")
           => /\ Committed
              /\ ~lastCycle.byTimer
              /\ previousHosts = lastCycle.currentHosts
              /\ \A c \in Slots : ~InFlight(c)]_vars

\* the timer's first cycle awaits its scan; the last commit is the initial
\* cycle's
WitnessStartupOrdering ==
  /\ mainPc = "armed"
  /\ Committed
  /\ ~lastCycle.byTimer
  /\ \E c \in Slots : cycle[c].byTimer /\ cycle[c].pc = "exec"

\* a host entry with every part in place, up and with an ipv4 address
WellFormed(host) ==
  /\ ~host.isNull
  /\ host.status = "up"
  /\ host.address.isArray
  /\ \A i \in 1..Len(host.address.items) : host.address.items[i].kind = "elem"
  /\ HasIpv4(host)

\* a host entry with a part missing or of the wrong shape
Malformed(host) ==
  \/ host.isNull
  \/ host.status = "absent"
  \/ ~host.address.isArray
  \/ \E i \in 1..Len(host.address.items) : host.address.items[i].kind # "elem"

\* C13: malformed parts of a host entry (no or non-array address list, an
\* address without attributes, no status, a null host, a single non-array
\* host) do not make the extraction fail: the Set is still built and holds
\* the identity of every well-formed up host with an ipv4 address of the
\* document.
MalformedHostOnlySkipped ==
  \A rec \in Records :
    (rec.pc = "resume" /\ ~rec.scanFailed)
    => LET hosts == HostsOf(rec.xmlData)
       IN \A i \in 1..Len(hosts) :
            WellFormed(hosts[i]) => SetHas(rec.currentHosts, IdentityOf(hosts[i]))

\* a document with a malformed host before a well-formed one gave a Set
\* with the well-formed host's identity
WitnessMalformedHostOnlySkipped ==
  \E c \in Slots :
    /\ cycle[c].pc = "resume"
    /\ ~cycle[c].scanFailed
    /\ LET hosts == HostsOf(cycle[c].xmlData)
       IN /\ Len(hosts) = 2
          /\ hosts[1].isNull
          /\ WellFormed(hosts[2])
          /\ cycle[c].currentHosts = <<IdentityOf(hosts[2])>>

\* the primary address of an identity
Primary(id) == id[1]

\* C14: identity is the whole tuple: when a host keeps its primary address
\* from one cycle to the next but its MAC part changes or disappears, the
\* later cycle has the old identity among the departures and the new one
\* among the arrivals, and sends both notifications.
IdentityIsFullTuple ==
  Committed =>
    \A old \in Range(lastCycle.prev) :
      \A new \in Range(lastCycle.currentHosts) :
        (/\ Primary(old) = Primary(new)
         /\ old # new
         /\ ~SetHas(lastCycle.currentHosts, old)
         /\ ~SetHas(lastCycle.prev, new))
        => /\ SetHas(lastCycle.leftDevices, old)
           /\ SetHas(lastCycle.newDevices, new)
           /\ Titles(lastCycle) = <<"Network: New Devices", "Network: Devices Left">>

LinesOf(rec, head) == {i \in 1..Len(rec.log) : rec.log[i][1] = head}

\* C15: logging does not depend on the suppression of notifications: every
\* cycle, the first included, prints one line per arrival and one per
\* departure and no summary line when there are changes, and otherwise one
\* summary line with the number of current hosts.
LoggingEveryCycle ==
  \A rec \in Records :
    Diffed(rec) =>
      IF rec.newDevices # <<>> \/ rec.leftDevices # <<>>
      THEN /\ Cardinality(LinesOf(rec, "[+] NEW DEVICE: ")) = Len(rec.newDevices)
           /\ Cardinality(LinesOf(rec, "[-] DEVICE LEFT: ")) = Len(rec.leftDevices)
           /\ \A k \in 1..Len(rec.newDevices) :
                \E i \in 1..Len(rec.log) : rec.log[i] = <<"[+] NEW DEVICE: ", rec.newDevices[k]>>
           /\ \A k \in 1..Len(rec.leftDevices) :
                \E i \in 1..Len(rec.log) : rec.log[i] = <<"[-] DEVICE LEFT: ", rec.leftDevices[k]>>
           /\ LinesOf(rec, "No changes. ") = {}
      ELSE /\ Cardinality(LinesOf(rec, "No changes. ")) = 1
           /\ \A i \in LinesOf(rec, "No changes. ") :
                rec.log[i] = <<"No changes. ", Len(rec.currentHosts), " hosts active.">>
           /\ LinesOf(rec, "[+] NEW DEVICE: ") = {}
           /\ LinesOf(rec, "[-] DEVICE LEFT: ") = {}

\* the first cycle found two hosts: two lines, no notification
WitnessLoggingEveryCycle ==
  /\ Committed
  /\ ~lastCycle.byTimer
  /\ lastCycle.isFirstScan
  /\ Len(lastCycle.newDevices) = 2
  /\ Cardinality(LinesOf(lastCycle, "[+] NEW DEVICE: ")) = 2
  /\ lastCycle.sent = <<>>

\* C16: a change whose notification failed is not notified again: the cycle
\* commits its scan result all the same, so when the next cycle's scan
\* returns the same Set, that cycle finds no arrivals and no departures and
\* starts no notification.
NoRetryOfLostNotification ==
  [][\A c \in Slots :
       (/\ Reads(c)
        /\ Committed
        /\ lastCycle.notifyFailed
        /\ Range(cycle[c].currentHosts) = Range(lastCycle.currentHosts))
       => /\ Writes(c)
          /\ lastCycle'.newDevices = <<>>
          /\ lastCycle'.leftDevices = <<>>
          /\ lastCycle'.sent = <<>>
          /\ previousHosts' = cycle[c].currentHosts]_vars

\* a cycle whose notification failed has committed its hosts, and the only
\* cycle in flight has scanned the same hosts and is about to take its diff
WitnessNoRetryOfLostNotification ==
  /\ Committed
  /\ lastCycle.notifyFailed
  /\ lastCycle.currentHosts # EmptySet
  /\ previousHosts = lastCycle.currentHosts
  /\ \E c \in Slots :
       /\ cycle[c].pc = "resume"
       /\ cycle[c].currentHosts = lastCycle.currentHosts
       /\ \A d \in Slots \ {c} : ~InFlight(d)

\* C17: commits follow the order of the starts: previousHosts is never
\* replaced by the result of a cycle that started before the cycle whose
\* result it holds.
CommitsFollowStartOrder ==
  [][\A c \in Slots : Writes(c) => c \notin hist.overtaken]_vars

====
